---- MODULE Spec2Model ----
(***************************************************************************)
(* A model of pyedimax's SmartPlug client (src/pyedimax/smartplug.py).     *)
(*                                                                         *)
(* The client is an object with two fields that matter, url and auth.      *)
(* Construction probes the device with one HEAD request; each of the four  *)
(* accessors (the state getter and setter, now_power, now_energy_day)      *)
(* builds an XML command, posts it and parses the XML reply.               *)
(*                                                                         *)
(* Python strings are sequences of one-character strings, so that case     *)
(* conversion, prefix tests and float() parsing are computed character by  *)
(* character.  A Python value that may be None is a record                 *)
(* [some, s].  XML documents are trees of nodes, serialised and searched   *)
(* the way xml.dom.minidom does it.                                        *)
(***************************************************************************)
EXTENDS Integers, Sequences, FiniteSets, TLC

VARIABLES
    phase,      \* "new" before SmartPlug(...), "ready" once built, "failed" if __init__ raised
    ctor,       \* the arguments of SmartPlug(...) and the probe's reply
    url,        \* self.url
    auth,       \* self.auth
    net,        \* every HTTP request sent so far, in order
    nCalls,     \* accessor calls made so far
    last        \* the last accessor call: operation, input, reply, what it did

vars == <<phase, ctor, url, auth, net, nCalls, last>>

----------------------------------------------------------------------------
(* Bounds of the model.                                                    *)

\* The number of accessor calls made on one client.
MaxCalls == 2

----------------------------------------------------------------------------
(* Python strings and None.                                                *)

None == [some |-> FALSE, s |-> <<>>]
PyStr(s) == [some |-> TRUE, s |-> s]

ON == <<"O", "N">>
OFF == <<"O", "F", "F">>
OK == <<"O", "K">>
FAILED == <<"F", "A", "I", "L", "E", "D">>
on == <<"o", "n">>
off == <<"o", "f", "f">>
Empty == <<>>

\* Python's s[0:n].
Slice0(s, n) == SubSeq(s, 1, IF Len(s) < n THEN Len(s) ELSE n)

----------------------------------------------------------------------------
(* xml.dom.minidom: nodes, toxml, getElementsByTagName, nodeValue.         *)

Element(name, attrs, kids) ==
    [type |-> "element", name |-> name, attrs |-> attrs, value |-> <<>>, kids |-> kids]
Text(data) ==
    [type |-> "text", name |-> "#text", attrs |-> <<>>, value |-> data, kids |-> <<>>]
Document(root) ==
    [type |-> "document", name |-> "#document", attrs |-> <<>>, value |-> <<>>, kids |-> <<root>>]

\* Node.nodeValue: the data of a text node, None for an element.
nodeValue(n) == IF n.type = "text" THEN PyStr(n.value) ELSE None

\* minidom's _write_data: the escaping of character data.
EscapeChar(c) ==
    CASE c = "&" -> "&amp;"
      [] c = "<" -> "&lt;"
      [] c = ">" -> "&gt;"
      [] OTHER -> c

RECURSIVE EscapeData(_)
EscapeData(s) == IF s = <<>> THEN "" ELSE EscapeChar(Head(s)) \o EscapeData(Tail(s))

RECURSIVE writeAttrs(_)
writeAttrs(as) ==
    IF as = <<>> THEN ""
    ELSE " " \o Head(as)[1] \o "=\"" \o Head(as)[2] \o "\"" \o writeAttrs(Tail(as))

RECURSIVE writexml(_), writeKids(_)
\* Node.writexml with no indentation, as toxml calls it.
writexml(n) ==
    CASE n.type = "text" -> EscapeData(n.value)
      [] n.type = "document" -> "<?xml version=\"1.0\" ?>" \o writeKids(n.kids)
      [] OTHER ->
            "<" \o n.name \o writeAttrs(n.attrs)
            \o (IF n.kids = <<>> THEN "/>"
                ELSE ">" \o writeKids(n.kids) \o "</" \o n.name \o ">")
writeKids(ks) == IF ks = <<>> THEN "" ELSE writexml(Head(ks)) \o writeKids(Tail(ks))

toxml(doc) == writexml(doc)

RECURSIVE Descendants(_)
\* The nodes below the nodes ks, in document order.
Descendants(ks) ==
    IF ks = <<>> THEN <<>>
    ELSE <<Head(ks)>> \o Descendants(Head(ks).kids) \o Descendants(Tail(ks))

\* Node.getElementsByTagName: the elements below n with that tag, in document order.
getElementsByTagName(n, name) ==
    SelectSeq(Descendants(n.kids), LAMBDA d : d.type = "element" /\ d.name = name)

----------------------------------------------------------------------------
(* Python's float(): which strings it accepts.                             *)

UpperAlpha == <<"A", "B", "C", "D", "E", "F", "G", "H", "I", "J", "K", "L", "M",
                "N", "O", "P", "Q", "R", "S", "T", "U", "V", "W", "X", "Y", "Z">>
LowerAlpha == <<"a", "b", "c", "d", "e", "f", "g", "h", "i", "j", "k", "l", "m",
                "n", "o", "p", "q", "r", "s", "t", "u", "v", "w", "x", "y", "z">>

LowerChar(c) ==
    IF \E i \in DOMAIN UpperAlpha : UpperAlpha[i] = c
    THEN LowerAlpha[CHOOSE i \in DOMAIN UpperAlpha : UpperAlpha[i] = c]
    ELSE c
ToLower(s) == [i \in DOMAIN s |-> LowerChar(s[i])]

\* The upper-case form of a string (the canonical form the properties speak of).
UpperChar(c) ==
    IF \E i \in DOMAIN LowerAlpha : LowerAlpha[i] = c
    THEN UpperAlpha[CHOOSE i \in DOMAIN LowerAlpha : LowerAlpha[i] = c]
    ELSE c
ToUpper(s) == [i \in DOMAIN s |-> UpperChar(s[i])]

IsSpace(c) == c \in {" ", "\t", "\n", "\r", "\f"}
IsDigit(c) == c \in {"0", "1", "2", "3", "4", "5", "6", "7", "8", "9"}

RECURSIVE LStrip(_)
LStrip(s) == IF s # <<>> /\ IsSpace(Head(s)) THEN LStrip(Tail(s)) ELSE s
RECURSIVE RStrip(_)
RStrip(s) ==
    IF s # <<>> /\ IsSpace(s[Len(s)]) THEN RStrip(SubSeq(s, 1, Len(s) - 1)) ELSE s
Strip(s) == RStrip(LStrip(s))

\* The first position of s holding a character of cs, 0 if there is none.
IndexOf(s, cs) ==
    IF \E i \in DOMAIN s : s[i] \in cs
    THEN CHOOSE i \in DOMAIN s : s[i] \in cs /\ \A j \in 1..(i - 1) : s[j] \notin cs
    ELSE 0

\* digit (["_"] digit)*
IsDigitPart(s) ==
    /\ s # <<>>
    /\ IsDigit(s[1])
    /\ IsDigit(s[Len(s)])
    /\ \A i \in DOMAIN s : IsDigit(s[i]) \/ s[i] = "_"
    /\ \A i \in 1..(Len(s) - 1) : ~(s[i] = "_" /\ s[i + 1] = "_")

Unsigned(s) == IF s # <<>> /\ Head(s) \in {"+", "-"} THEN Tail(s) ELSE s

\* [digitpart] "." [digitpart] | digitpart, then an optional exponent.
IsFloatNumber(s) ==
    LET e == IndexOf(s, {"e", "E"})
        mant == IF e = 0 THEN s ELSE SubSeq(s, 1, e - 1)
        expo == IF e = 0 THEN <<>> ELSE SubSeq(s, e + 1, Len(s))
        p == IndexOf(mant, {"."})
        ip == IF p = 0 THEN mant ELSE SubSeq(mant, 1, p - 1)
        fp == IF p = 0 THEN <<>> ELSE SubSeq(mant, p + 1, Len(mant))
    IN  /\ IF p = 0 THEN IsDigitPart(mant)
           ELSE /\ ip = <<>> \/ IsDigitPart(ip)
                /\ fp = <<>> \/ IsDigitPart(fp)
                /\ ip # <<>> \/ fp # <<>>
        /\ e = 0 \/ IsDigitPart(Unsigned(expo))

\* float(s) for a str s returns (TRUE) or raises ValueError (FALSE).
FloatAccepts(s) ==
    LET t == Unsigned(Strip(s))
    IN  \/ IsFloatNumber(t)
        \/ ToLower(t) \in { <<"i", "n", "f">>, <<"n", "a", "n">>,
                            <<"i", "n", "f", "i", "n", "i", "t", "y">> }

----------------------------------------------------------------------------
(* The commands.                                                           *)

StateTag == "Device.System.Power.State"
NowPowerTag == "NOW_POWER"

\* An XML string as Python holds it: its bytes, and the document they print.
XmlOf(doc) == [bytes |-> toxml(doc), doc |-> doc]

_xml_cmd_setget_state(cmdId, cmdStr) ==
    XmlOf(Document(
        Element("SMARTPLUG", << <<"id", "edimax">> >>,
            << Element("CMD", << <<"id", cmdId>> >>,
                << Element(StateTag, <<>>, << Text(cmdStr) >>) >>) >>)))

_xml_cmd_get_now_power(attribute) ==
    XmlOf(Document(
        Element("SMARTPLUG", << <<"id", "edimax">> >>,
            << Element("CMD", << <<"id", "get">> >>,
                << Element(NowPowerTag, <<>>,
                    << Element("Device.System.Power." \o attribute, <<>>,
                        << Text(Empty) >>) >>) >>) >>)))

\* The commands the accessors build.  They depend on no state, so each is
\* built once.
GetStateCmd == _xml_cmd_setget_state("get", Empty)
SetOnCmd == _xml_cmd_setget_state("setup", ON)
SetOffCmd == _xml_cmd_setget_state("setup", OFF)
NowPowerCmd == _xml_cmd_get_now_power("NowPower")
NowEnergyDayCmd == _xml_cmd_get_now_power("NowEnergy.Day")

----------------------------------------------------------------------------
(* The HTTP layer and the parsing of replies.                              *)

\* requests.codes.ok
codes_ok == 200

\* What a call returns or raises; exc = "" when it returns.  parsed records
\* whether parseString was called on the reply, posts the requests it sent.
Returned(v, parsed, posts) == [val |-> v, exc |-> "", parsed |-> parsed, posts |-> posts]
Raised(e, parsed, posts) == [val |-> None, exc |-> e, parsed |-> parsed, posts |-> posts]

\* A variant of PostRequest that authenticates with the bare credentials pair
\* (HTTP Basic) whatever self.auth holds.
PostRequest_credentials(self, xml) ==
    [method |-> "POST", url |-> self.url,
     auth |-> [scheme |-> "Basic", user |-> self.auth.user, password |-> self.auth.password],
     file |-> xml]

\* requests.post(self.url, auth=self.auth, files={'file': xml})
PostRequest(self, xml) ==
    [method |-> "POST", url |-> self.url, auth |-> self.auth, file |-> xml]

\* A variant of ParseStateReply that looks past blank text at the start of CMD.
ParseStateReply_skip_blank(dom) ==
    LET cmds == getElementsByTagName(dom, "CMD")
        cmd == cmds[1]
        kids == SelectSeq(cmd.kids,
                    LAMBDA k : ~(k.type = "text" /\ \A i \in DOMAIN k.value : IsSpace(k.value[i])))
        states == getElementsByTagName(cmd, StateTag)
    IN  IF cmds = <<>> THEN None
        ELSE IF kids = <<>> THEN None
        ELSE IF nodeValue(kids[1]) # None THEN nodeValue(kids[1])
        ELSE IF states = <<>> THEN None
        ELSE IF states[1].kids = <<>> THEN None
        ELSE nodeValue(states[1].kids[1])

\* The try block of _post_xml: an exception inside it is printed and the
\* function falls through to "return None".
ParseStateReply(dom) ==
    LET cmds == getElementsByTagName(dom, "CMD")
        cmd == cmds[1]
        states == getElementsByTagName(cmd, StateTag)
    IN  IF cmds = <<>> THEN None                          \* IndexError
        ELSE IF cmd.kids = <<>> THEN None                 \* firstChild is None
        ELSE IF nodeValue(cmd.kids[1]) # None THEN nodeValue(cmd.kids[1])
        ELSE IF states = <<>> THEN None                   \* IndexError
        ELSE IF states[1].kids = <<>> THEN None           \* firstChild is None
        ELSE nodeValue(states[1].kids[1])

\* A variant of _post_xml that takes every 2xx status for success.
_post_xml_any_2xx(self, xml, reply) ==
    LET posts == << PostRequest(self, xml) >>
    IN  IF reply.net # "ok" THEN Raised("ConnectionError", FALSE, posts)
        ELSE IF reply.status >= 200 /\ reply.status < 300
        THEN IF ~reply.body.wf THEN Raised("ExpatError", TRUE, posts)
             ELSE Returned(ParseStateReply(reply.body.doc), TRUE, posts)
        ELSE Returned(None, FALSE, posts)

\* A variant of _post_xml that posts once more when the status is not 200.
_post_xml_retry(self, xml, reply) ==
    LET posts == << PostRequest(self, xml) >>
    IN  IF reply.net # "ok" THEN Raised("ConnectionError", FALSE, posts)
        ELSE IF reply.status = codes_ok
        THEN IF ~reply.body.wf THEN Raised("ExpatError", TRUE, posts)
             ELSE Returned(ParseStateReply(reply.body.doc), TRUE, posts)
        ELSE Returned(None, FALSE, posts \o posts)

_post_xml(self, xml, reply) ==
    LET posts == << PostRequest(self, xml) >>
    IN  IF reply.net # "ok" THEN Raised("ConnectionError", FALSE, posts)
        ELSE IF reply.status = codes_ok
        THEN IF ~reply.body.wf THEN Raised("ExpatError", TRUE, posts)
             ELSE Returned(ParseStateReply(reply.body.doc), TRUE, posts)
        ELSE Returned(None, FALSE, posts)

\* The try block of _post_xml_now_power.
ParsePowerReply(dom) ==
    LET cmds == getElementsByTagName(dom, "CMD")
        cmd == cmds[1]
        powers == getElementsByTagName(cmd, NowPowerTag)
        attr == powers[1].kids[1]
    IN  IF cmds = <<>> THEN None                          \* IndexError
        ELSE IF cmd.kids = <<>> THEN None                 \* firstChild is None
        ELSE IF nodeValue(cmd.kids[1]) # None THEN nodeValue(cmd.kids[1])
        ELSE IF powers = <<>> THEN None                   \* IndexError
        ELSE IF powers[1].kids = <<>> THEN None           \* firstChild is None
        ELSE IF attr.kids = <<>> THEN None                \* firstChild.firstChild is None
        ELSE nodeValue(attr.kids[1])

_post_xml_now_power(self, xml, reply) ==
    LET posts == << PostRequest(self, xml) >>
    IN  IF reply.net # "ok" THEN Raised("ConnectionError", FALSE, posts)
        ELSE IF reply.status = codes_ok
        THEN IF ~reply.body.wf THEN Raised("ExpatError", TRUE, posts)
             ELSE Returned(ParsePowerReply(reply.body.doc), TRUE, posts)
        ELSE Returned(None, FALSE, posts)

----------------------------------------------------------------------------
(* The accessors.  Each gives what the caller sees (kind, val, exc) and    *)
(* res, what its one call of _post_xml did.                                *)

Return(v, res) == [kind |-> "return", val |-> v, exc |-> "", res |-> res]
Raise(e, res) == [kind |-> "raise", val |-> None, exc |-> e, res |-> res]

\* raise Exception("Failed to communicate with SmartPlug")
CommError == "Exception: Failed to communicate with SmartPlug"

\* A variant of state_getter_check that returns whatever was parsed.
state_getter_check_unchecked(res) == Return(res.val, res)

\* The check of the state getter on the value _post_xml returned.
state_getter_check(res) ==
    IF res.val # PyStr(ON) /\ res.val # PyStr(OFF) THEN Raise(CommError, res)
    ELSE Return(res.val, res)

state_getter(self, reply) ==
    LET res == _post_xml(self, GetStateCmd, reply)
    IN  IF res.exc # "" THEN Raise(res.exc, res) ELSE state_getter_check(res)

\* A variant of state_setter_cmd that knows "ON" but not "on".
state_setter_cmd_upper_only(value) ==
    IF value = ON THEN SetOnCmd ELSE SetOffCmd

\* A variant of state_setter_cmd that compares ignoring letter case.
state_setter_cmd_any_case(value) ==
    IF ToUpper(value) = ON THEN SetOnCmd ELSE SetOffCmd

\* The command the state setter sends for a value.
state_setter_cmd(value) ==
    IF value = ON \/ value = on THEN SetOnCmd ELSE SetOffCmd

\* A variant of state_setter_check that fails only on FAILED.
state_setter_check_not_failed(res) ==
    IF res.val = PyStr(FAILED) THEN Raise(CommError, res) ELSE Return(None, res)

\* The check of the state setter on the value _post_xml returned.
state_setter_check(res) ==
    IF res.val # PyStr(OK) THEN Raise(CommError, res) ELSE Return(None, res)

state_setter(self, value, reply) ==
    LET res == _post_xml(self, state_setter_cmd(value), reply)
    IN  IF res.exc # "" THEN Raise(res.exc, res) ELSE state_setter_check(res)

\* try: float(res) / except ValueError: raise Exception(...) / return res
float_check(res) ==
    IF ~res.val.some THEN Raise("TypeError", res)         \* float(None)
    ELSE IF ~FloatAccepts(res.val.s) THEN Raise(CommError, res)
    ELSE Return(res.val, res)

now_power(self, reply) ==
    LET res == _post_xml_now_power(self, NowPowerCmd, reply)
    IN  IF res.exc # "" THEN Raise(res.exc, res) ELSE float_check(res)

now_energy_day(self, reply) ==
    LET res == _post_xml_now_power(self, NowEnergyDayCmd, reply)
    IN  IF res.exc # "" THEN Raise(res.exc, res) ELSE float_check(res)

----------------------------------------------------------------------------
(* Construction.                                                           *)

BasicAuth(creds) == [scheme |-> "Basic", user |-> creds[1], password |-> creds[2]]
HTTPDigestAuth(user, password) == [scheme |-> "Digest", user |-> user, password |-> password]
NoAuth == [scheme |-> "none", user |-> "", password |-> ""]

Digest == <<"D", "i", "g", "e", "s", "t">>

\* "http://%s:10000/smartplug.cgi" % host
UrlOf(host) == "http://" \o host \o ":10000/smartplug.cgi"

\* requests.head(self.url)
HeadRequest(u) == [method |-> "HEAD", url |-> u, auth |-> NoAuth]

\* self.auth after the probe's WWW-Authenticate header value www.
ResolveAuth(creds, www) ==
    IF Slice0(www, 6) = Digest THEN HTTPDigestAuth(creds[1], creds[2])
    ELSE BasicAuth(creds)

\* SmartPlug(host, creds) against a device that answers the probe with probe.
__init__(host, creds, probe) ==
    LET u == UrlOf(host)
        sent == << HeadRequest(u) >>
    IN  IF probe.net # "ok"
        THEN [exc |-> "ConnectionError", url |-> u, auth |-> BasicAuth(creds), sent |-> sent]
        ELSE IF ~probe.hasHeader                  \* res.headers['WWW-Authenticate']
        THEN [exc |-> "KeyError", url |-> u, auth |-> BasicAuth(creds), sent |-> sent]
        ELSE [exc |-> "", url |-> u, auth |-> ResolveAuth(creds, probe.www), sent |-> sent]

----------------------------------------------------------------------------
(* The inputs: callers' arguments and the device's replies.                *)

Hosts == {"172.16.100.75", "plug.local"}
Credentials == { <<"admin", "1234">> }

HeaderValues ==
    { <<"D", "i", "g", "e", "s", "t", " ", "r", "e", "a", "l", "m", "=", "x">>,
      <<"B", "a", "s", "i", "c", " ", "r", "e", "a", "l", "m", "=", "x">>,
      <<"d", "i", "g", "e", "s", "t", " ", "r", "e", "a", "l", "m", "=", "x">>,
      <<"D", "i", "g">> }

Probes ==
    { [net |-> "fail", hasHeader |-> FALSE, www |-> <<>>],
      [net |-> "ok", hasHeader |-> FALSE, www |-> <<>>] }
    \cup { [net |-> "ok", hasHeader |-> TRUE, www |-> h] : h \in HeaderValues }

\* The values callers give the state setter.
SetValues ==
    { ON, on, <<"O", "n">>, <<"o", "N">>, OFF, off, <<"O", "f", "f">>,
      <<"m", "a", "y", "b", "e">> }

Ws == <<"\n", " ">>
Num == <<"1", "2", ".", "3">>
Junk == <<"a", "b", "c">>

\* Text a device may put in a reply.
Texts == { ON, OFF, OK, FAILED, Num, Junk }
PowerTexts == { Num, Junk, <<" ", "7">>, <<"1", "e">>, <<"n", "a", "n">>, OK }

El(name, kids) == Element(name, <<>>, kids)
StateEl(kids) == El(StateTag, kids)
PowerEl(kids) == El(NowPowerTag, << El("Device.System.Power.NowPower", kids) >>)

\* What a reply's CMD element may hold.
CmdContents ==
    { << Text(t) >> : t \in Texts }
    \cup { << StateEl(<< Text(t) >>) >> : t \in Texts }
    \cup { << Text(Ws), StateEl(<< Text(t) >>) >> : t \in {ON, OFF} }
    \cup { << PowerEl(<< Text(t) >>) >> : t \in PowerTexts }
    \cup { <<>>,
           << El("X", <<>>), Text(OK) >>,
           << StateEl(<<>>) >>,
           << StateEl(<< El("X", <<>>) >>) >>,
           << El("X", << StateEl(<< Text(ON) >>) >>) >>,
           << El(NowPowerTag, <<>>) >>,
           << El(NowPowerTag, << Text(Num) >>) >>,
           << PowerEl(<<>>) >>,
           << Text(Ws), PowerEl(<< Text(Num) >>) >> }

NoDoc == Document(El("none", <<>>))

\* The bodies of replies: text that is not XML, and documents.
Bodies ==
    { [wf |-> FALSE, doc |-> NoDoc] }
    \cup { [wf |-> TRUE, doc |-> Document(El("SMARTPLUG", << El("CMD", c) >>))] :
             c \in CmdContents }
    \cup { [wf |-> TRUE, doc |-> Document(El("CMD", c))] :
             c \in { << Text(OK) >>, << StateEl(<< Text(OFF) >>) >>,
                     << PowerEl(<< Text(Num) >>) >> } }
    \cup { [wf |-> TRUE, doc |-> Document(El("SMARTPLUG", <<>>))],
           [wf |-> TRUE, doc |-> Document(El("SMARTPLUG",
                << El("CMD", << Text(OK) >>), El("CMD", << Text(FAILED) >>) >>))] }

\* Bodies sent along with a status other than 200.
ErrorBodies ==
    { b \in Bodies :
        \/ ~b.wf
        \/ b.doc \in { Document(El("CMD", << Text(OK) >>)),
                       Document(El("CMD", << StateEl(<< Text(OFF) >>) >>)),
                       Document(El("CMD", << PowerEl(<< Text(Num) >>) >>)) } }

OtherStatuses == {204, 500}

NoBody == [wf |-> FALSE, doc |-> NoDoc]

Replies ==
    { [net |-> "fail", status |-> 0, body |-> NoBody] }
    \cup { [net |-> "ok", status |-> codes_ok, body |-> b] : b \in Bodies }
    \cup { [net |-> "ok", status |-> st, body |-> b] : st \in OtherStatuses, b \in ErrorBodies }

----------------------------------------------------------------------------
(* The state machine.                                                      *)

NoReply == [net |-> "none", status |-> 0, body |-> NoBody]
NoCall ==
    [op |-> "none", value |-> <<>>, reply |-> NoReply,
     out |-> Return(None, Returned(None, FALSE, <<>>))]
NoCtor == [host |-> "", creds |-> <<"", "">>, probe |-> [net |-> "none", hasHeader |-> FALSE, www |-> <<>>]]

\* What goes into the log of requests: where a request went and how it authenticated.
Wire(reqs) ==
    [i \in DOMAIN reqs |-> [method |-> reqs[i].method, url |-> reqs[i].url, auth |-> reqs[i].auth]]

Self == [url |-> url, auth |-> auth]

Init ==
    /\ phase = "new"
    /\ ctor = NoCtor
    /\ url = ""
    /\ auth = NoAuth
    /\ net = <<>>
    /\ nCalls = 0
    /\ last = NoCall

Construct ==
    /\ phase = "new"
    /\ \E host \in Hosts, creds \in Credentials, probe \in Probes :
          LET r == __init__(host, creds, probe)
          IN  /\ phase' = IF r.exc = "" THEN "ready" ELSE "failed"
              /\ ctor' = [host |-> host, creds |-> creds, probe |-> probe]
              /\ url' = r.url
              /\ auth' = r.auth
              /\ net' = net \o r.sent
    /\ UNCHANGED <<nCalls, last>>

\* One accessor call: out is what the accessor did.
Called(op, value, reply, out) ==
    /\ last' = [op |-> op, value |-> value, reply |-> reply, out |-> out]
    /\ net' = net \o Wire(out.res.posts)
    /\ nCalls' = nCalls + 1
    /\ UNCHANGED <<phase, ctor, url, auth>>

GetState ==
    /\ phase = "ready"
    /\ nCalls < MaxCalls
    /\ \E reply \in Replies :
          Called("state_getter", <<>>, reply, state_getter(Self, reply))

SetState ==
    /\ phase = "ready"
    /\ nCalls < MaxCalls
    /\ \E value \in SetValues, reply \in Replies :
          Called("state_setter", value, reply, state_setter(Self, value, reply))

GetNowPower ==
    /\ phase = "ready"
    /\ nCalls < MaxCalls
    /\ \E reply \in Replies :
          Called("now_power", <<>>, reply, now_power(Self, reply))

GetNowEnergyDay ==
    /\ phase = "ready"
    /\ nCalls < MaxCalls
    /\ \E reply \in Replies :
          Called("now_energy_day", <<>>, reply, now_energy_day(Self, reply))

Next == Construct \/ GetState \/ SetState \/ GetNowPower \/ GetNowEnergyDay

Spec == Init /\ [][Next]_vars

----------------------------------------------------------------------------
(* Vocabulary of the properties.                                           *)

StateOps == {"state_getter", "state_setter"}
PowerOps == {"now_power", "now_energy_day"}

\* The last call got an HTTP reply (the connection did not fail).
GotReply == last.op # "none" /\ last.reply.net = "ok"

\* The last call got a reply with that status whose body is well-formed XML.
GotDocument(st) == GotReply /\ last.reply.status = st /\ last.reply.body.wf

\* s begins with the characters p.
BeginsWith(s, p) == Len(s) >= Len(p) /\ SubSeq(s, 1, Len(p)) = p

IsBlank(s) == \A i \in DOMAIN s : IsSpace(s[i])

\* The value of attribute a of element n, "" if it has none.
AttrOf(n, a) ==
    IF \E i \in DOMAIN n.attrs : n.attrs[i][1] = a
    THEN n.attrs[CHOOSE i \in DOMAIN n.attrs : n.attrs[i][1] = a][2]
    ELSE ""

\* The request the last call sent, and the CMD elements and state leaves in it.
SentFile == last.out.res.posts[1].file
SentCmds == getElementsByTagName(SentFile.doc, "CMD")
SentLeaves == getElementsByTagName(SentFile.doc, StateTag)

\* The request holds exactly one CMD, with id="setup", whose state leaf holds text t.
SendsSetup(t) ==
    /\ Len(last.out.res.posts) = 1
    /\ Len(SentCmds) = 1
    /\ AttrOf(SentCmds[1], "id") = "setup"
    /\ Len(SentLeaves) = 1
    /\ SentLeaves[1].kids = << Text(t) >>
    /\ getElementsByTagName(SentCmds[1], StateTag) = SentLeaves

\* The bytes of the set-state request for ON (section 6 of the specification,
\* after the XML declaration toxml writes).
SetOnBytes ==
    "<?xml version=\"1.0\" ?><SMARTPLUG id=\"edimax\"><CMD id=\"setup\">"
    \o "<Device.System.Power.State>ON</Device.System.Power.State></CMD></SMARTPLUG>"

\* The first CMD element of the reply of the last call (when it has one).
ReplyCmds == getElementsByTagName(last.reply.body.doc, "CMD")
ReplyCmd == ReplyCmds[1]

\* The text of the first child of the first element below n named tag, None if
\* there is no such element or it does not start with text.
NestedText(n, tag) ==
    LET es == SelectSeq(Descendants(n.kids), LAMBDA d : d.type = "element" /\ d.name = tag)
    IN  IF es = <<>> THEN None
        ELSE IF es[1].kids = <<>> THEN None
        ELSE IF es[1].kids[1].type = "element" THEN None
        ELSE PyStr(es[1].kids[1].value)

\* The text under the first child of the first NOW_POWER element below n.
NestedPowerText(n) ==
    LET es == SelectSeq(Descendants(n.kids), LAMBDA d : d.type = "element" /\ d.name = NowPowerTag)
    IN  IF es = <<>> THEN None
        ELSE IF es[1].kids = <<>> THEN None
        ELSE IF es[1].kids[1].kids = <<>> THEN None
        ELSE IF es[1].kids[1].kids[1].type = "element" THEN None
        ELSE PyStr(es[1].kids[1].kids[1].value)

\* The value nested under the command-specific child of cmd, for the last call.
NestedValue(cmd) ==
    IF last.op \in PowerOps THEN NestedPowerText(cmd) ELSE NestedText(cmd, StateTag)

\* The direct text of cmd that is present and non-empty: its text children that
\* are not blank.
DirectTexts(cmd) == SelectSeq(cmd.kids, LAMBDA k : k.type = "text" /\ ~IsBlank(k.value))

----------------------------------------------------------------------------
(* The properties.                                                         *)

\* C1: whatever the device replies to a state query, the state getter either
\* returns exactly ON or exactly OFF or raises an error; a reply from which no
\* value is parsed makes it raise, it never returns None.
C1_GetStateOnOffOrError ==
    last.op = "state_getter" =>
        /\ last.out.kind \in {"return", "raise"}
        /\ last.out.kind = "return" => last.out.val \in {PyStr(ON), PyStr(OFF)}
        /\ last.out.kind = "raise" => last.out.exc # ""
        /\ (~GotDocument(codes_ok) \/ last.out.res.val = None) => last.out.kind = "raise"

\* A state query answered 200 with XML that holds no value: the getter raised.
C1_Witness ==
    /\ last.op = "state_getter"
    /\ GotDocument(codes_ok)
    /\ last.out.res.val = None
    /\ last.out.kind = "raise"

\* C2 as claimed: for every value equal to ON or OFF ignoring letter case, the
\* request holds exactly one CMD with id="setup" whose leaf is the value in
\* upper case.
C2_AnyCaseCanonicalised ==
    (last.op = "state_setter" /\ ToUpper(last.value) \in {ON, OFF}) =>
        SendsSetup(ToUpper(last.value))

\* C2 as amended: for the values ON and on, and for OFF in any letter case, the
\* request holds exactly one CMD with id="setup" whose leaf is the value in
\* upper case; "on" and "ON" both send the same bytes.
C2_ExactOnAnyCaseOff ==
    last.op = "state_setter" =>
        /\ (last.value \in {ON, on} \/ ToUpper(last.value) = OFF) =>
                SendsSetup(ToUpper(last.value))
        /\ last.value \in {ON, on} => SentFile.bytes = SetOnBytes

\* The setter was given "on" and sent ON.
C2_Witness ==
    /\ last.op = "state_setter"
    /\ last.value = on
    /\ SendsSetup(ON)
    /\ SentFile.bytes = SetOnBytes

\* C3: the state setter returns without error exactly when the value parsed
\* from the reply is OK; FAILED, other text, an unparseable or empty reply, a
\* status that is not success and a failed connection all make it raise.
C3_SetStateSucceedsIffOK ==
    last.op = "state_setter" =>
        /\ last.out.kind = "return" <=>
                (last.out.res.exc = "" /\ last.out.res.val = PyStr(OK))
        /\ last.out.kind = "return" =>
                (GotDocument(codes_ok) /\ ReplyCmds # <<>> /\ last.out.val = None)
        /\ (GotDocument(codes_ok) /\ ReplyCmds # <<>> /\ ReplyCmd.kids = << Text(OK) >>) =>
                last.out.kind = "return"
        /\ (GotDocument(codes_ok) /\ ReplyCmds # <<>> /\ ReplyCmd.kids = << Text(FAILED) >>) =>
                last.out.kind = "raise"

\* The setter got <CMD>OK</CMD> and returned.
C3_Witness ==
    /\ last.op = "state_setter"
    /\ GotDocument(codes_ok)
    /\ ReplyCmds # <<>>
    /\ ReplyCmd.kids = << Text(OK) >>
    /\ last.out.kind = "return"

\* The error the specification names for a status that is not success.
TransportError(st) == "TransportError(" \o ToString(st) \o ")"

\* C4 as claimed: a status outside 2xx makes the accessor fail with a transport
\* error that identifies the status, the body unparsed; every 2xx status has
\* its body parsed.
C4_Non2xxTransportError ==
    GotReply =>
        /\ (last.reply.status < 200 \/ last.reply.status > 299) =>
                /\ last.out.kind = "raise"
                /\ last.out.exc = TransportError(last.reply.status)
                /\ ~last.out.res.parsed
        /\ (last.reply.status >= 200 /\ last.reply.status <= 299) =>
                last.out.res.parsed

\* C4 as amended: any status other than 200 makes the accessor raise with the
\* body unparsed (the communication error from the state accessors, TypeError
\* from the power accessors; neither names the status); only 200 has its body
\* parsed.
C4_Not200FailsUnparsed ==
    GotReply =>
        /\ last.reply.status # 200 =>
                /\ last.out.kind = "raise"
                /\ ~last.out.res.parsed
                /\ last.op \in StateOps => last.out.exc = CommError
                /\ last.op \in PowerOps => last.out.exc = "TypeError"
        /\ last.reply.status = 200 => last.out.res.parsed

\* An accessor got status 204 with a well-formed body and raised without parsing.
C4_Witness ==
    /\ GotDocument(204)
    /\ last.out.kind = "raise"
    /\ ~last.out.res.parsed

\* C5 as claimed: a power accessor returns only a valid number, and a reply
\* whose metering element is empty, missing or not a number makes it fail with
\* the library's communication error, the same in each case.
C5_PowerNumberOrCommError ==
    (last.op \in PowerOps /\ GotDocument(codes_ok)) =>
        /\ last.out.kind = "return" =>
                (last.out.val.some /\ FloatAccepts(last.out.val.s))
        /\ (last.out.res.val = None \/ ~FloatAccepts(last.out.res.val.s)) =>
                (last.out.kind = "raise" /\ last.out.exc = CommError)

\* C6 as claimed: a reply with status 200 that cannot be parsed (text that is
\* not XML, no CMD element, no nested value) makes the accessor fail with the
\* library's communication error; no other exception reaches the caller and
\* nothing is returned.
C6_ParseFailureIsCommError ==
    (GotReply /\ last.reply.status = codes_ok
        /\ (~last.reply.body.wf \/ ReplyCmds = <<>> \/ last.out.res.val = None)) =>
        (last.out.kind = "raise" /\ last.out.exc = CommError)


Posts == SelectSeq(net, LAMBDA r : r.method = "POST")
Probes_sent == SelectSeq(net, LAMBDA r : r.method = "HEAD")

\* The scheme the probe's header asks for.
ProbedScheme == IF BeginsWith(ctor.probe.www, Digest) THEN "Digest" ELSE "Basic"

C8_OnePostPerCall ==
    /\ Len(Posts) = nCalls
    /\ Len(Probes_sent) = (IF phase = "new" THEN 0 ELSE 1)
    /\ Len(net) = Len(Posts) + Len(Probes_sent)
    /\ last.op # "none" => Len(last.out.res.posts) = 1

\* Two calls made, the last one answered 500: two POSTs and one probe sent.
C8_Witness ==
    /\ nCalls = 2
    /\ GotReply
    /\ last.reply.status = 500
    /\ last.out.kind = "raise"
    /\ Len(Posts) = 2
    /\ Len(Probes_sent) = 1

\* C9 as claimed: parsing yields CMD's direct text when there is some that is
\* not empty, and otherwise the text nested under the command's child, also
\* when blank text or other content precedes the nested element.
C9_DirectTextElseNested ==
    (GotDocument(codes_ok) /\ ReplyCmds # <<>>) =>
        last.out.res.val =
            (IF DirectTexts(ReplyCmd) # <<>> THEN PyStr(DirectTexts(ReplyCmd)[1].value)
             ELSE NestedValue(ReplyCmd))

\* C9 as amended: parsing yields the text of CMD's first child when that child
\* is text, blank or not, and the nested text only when the first child is an
\* element: <CMD>OK</CMD> yields OK, a nested OFF yields OFF, and blank text
\* before the nested element yields the blank text.
C9_FirstChildDecides ==
    (GotDocument(codes_ok) /\ ReplyCmds # <<>> /\ ReplyCmd.kids # <<>>) =>
        /\ ReplyCmd.kids[1].type = "text" =>
                last.out.res.val = PyStr(ReplyCmd.kids[1].value)
        /\ ReplyCmd.kids[1].type = "element" =>
                last.out.res.val = NestedValue(ReplyCmd)
        /\ ReplyCmd.kids = << Text(OK) >> => last.out.res.val = PyStr(OK)
        /\ (ReplyCmd.kids = << StateEl(<< Text(OFF) >>) >> /\ last.op \in StateOps) =>
                last.out.res.val = PyStr(OFF)
        /\ (ReplyCmd.kids = << Text(Ws), StateEl(<< Text(ON) >>) >>) =>
                last.out.res.val = PyStr(Ws)

\* A state query answered with blank text before the nested ON: the blank text
\* was parsed.
C9_Witness ==
    /\ last.op = "state_getter"
    /\ GotDocument(codes_ok)
    /\ ReplyCmds # <<>>
    /\ ReplyCmd.kids = << Text(Ws), StateEl(<< Text(ON) >>) >>
    /\ last.out.res.val = PyStr(Ws)

\* C10: the state setter sends one setup POST for every value: its leaf is ON
\* exactly when the value is "ON" or "on" and OFF for every other value.
C10_SetterSendsOnOrOff ==
    last.op = "state_setter" =>
        /\ SendsSetup(IF last.value \in {ON, on} THEN ON ELSE OFF)
        /\ Len(Posts) = nCalls

\* The setter was given "On" and sent OFF.
C10_Witness ==
    /\ last.op = "state_setter"
    /\ last.value = <<"O", "n">>
    /\ SendsSetup(OFF)

====
